---- MODULE Spec2Model ----
(***************************************************************************)
(* Model of tiempo_timelapse.py: the ImageFetcher (bounded-concurrency     *)
(* fetch scheduler with conditional requests), the MetadataCache           *)
(* (validator store), the ForecastCache (content cache) and the parts of   *)
(* MainWindow that drive them.                                             *)
(*                                                                         *)
(* Qt signals are connected with direct connections inside one thread, so  *)
(* an emit() runs the connected slot before it returns: every handler is   *)
(* one atomic action that includes the slots it triggers.  The handlers    *)
(* are written as operators on a record of the program's fields (the       *)
(* record St below) and composed in the order of the source statements.    *)
(***************************************************************************)
EXTENDS Integers, Sequences, FiniteSets, TLC

VARIABLES
    queue,               \* ImageFetcher._queue
    headers_by_offset,   \* ImageFetcher._headers_by_offset
    force_network,       \* ImageFetcher._force_network
    in_flight,           \* ImageFetcher._in_flight
    done,                \* ImageFetcher._done
    total,               \* ImageFetcher._total
    max_concurrent,      \* ImageFetcher._max_concurrent
    network,             \* requests handed to QNetworkAccessManager.get, not yet answered
    frames,              \* MainWindow.frames
    refresh_in_progress, \* MainWindow._refresh_in_progress
    progress_updated,    \* MainWindow._progress_updated
    progress_unchanged,  \* MainWindow._progress_unchanged
    current_index,       \* MainWindow.current_index
    loop_mode,           \* MainWindow.loop_mode
    play_direction,      \* MainWindow.play_direction
    data,                \* MetadataCache.data
    dirty,               \* MetadataCache._dirty
    files,               \* the image files of the cache directory, by file name
    metadata_file,       \* the metadata.json document of the cache directory
    connected,           \* whether the fetcher's signals are connected to the window's slots
    trace,               \* what the last handler did, in order: signals emitted, files written
    call                 \* the last handler and its arguments

vars == <<queue, headers_by_offset, force_network, in_flight, done, total,
          max_concurrent, network, frames, refresh_in_progress, progress_updated,
          progress_unchanged, current_index, loop_mode, play_direction, data,
          dirty, files, metadata_file, connected, trace, call>>

----------------------------------------------------------------------------
(* Bounds of the model *)

\* number of forecast offsets of the domain that the model keeps (the program has 40)
NumOffsets == 2
\* longest key sequence handed to fetch_offsets directly
MaxBatchLen == 3
\* largest value handed to set_max_concurrent
MaxCap == 2

----------------------------------------------------------------------------
(* Program constants *)

DEFAULT_MAX_CONCURRENT == 4
LOOP_MODES == <<"Loop", "Ping-pong", "Stop">>
NEIGHBOR_PREFETCH == 2

\* Python's None; also "key not in dict" for the two-field dicts below
None == "<None>"

\* build_offsets(): list(range(6, 241, 6)), cut to the first NumOffsets entries
build_offsets == [i \in 1..NumOffsets |-> 6 * i]

Offsets == {build_offsets[i] : i \in 1..NumOffsets}

\* f"{offset:03d}"
Pad3(offset) ==
    IF offset < 10 THEN "00" \o ToString(offset)
    ELSE IF offset < 100 THEN "0" \o ToString(offset)
    ELSE ToString(offset)

\* BASE_URL.format(hour=offset)
BaseUrlFormat(offset) ==
    "https://services.meteored.com/img/models/ecmwf/ECMWF_" \o Pad3(offset)
        \o "_ES_SFC_es-ES_es.png"

----------------------------------------------------------------------------
(* Values *)

\* decoded images
Pixels == {"img1", "img2"}

\* bytes of a file or of a response body: a PNG encoding of pixels, or bytes that
\* do not decode
Png(p) == [valid |-> TRUE, pixels |-> p]
Garbage == [valid |-> FALSE, pixels |-> "noise"]
Bytes == {Png(p) : p \in Pixels} \cup {Garbage}

\* a dict with the possible keys "etag" and "last_modified"; None: key absent
EmptyDict == [etag |-> None, last_modified |-> None]

\* Python truthiness of an optional string
Truthy(v) == v # None /\ v # ""

\* str.strip() on the header values of the model
Strip(v) == IF v = " " THEN "" ELSE v

\* dict[k] = v
Put(f, k, v) == [x \in DOMAIN f \cup {k} |-> IF x = k THEN v ELSE f[x]]

\* dict.get(k, default)
Get(f, k, default) == IF k \in DOMAIN f THEN f[k] ELSE default

\* sequence without its i-th element
RemoveAt(seq, i) == [j \in 1..(Len(seq) - 1) |-> IF j < i THEN seq[j] ELSE seq[j + 1]]

\* one entry of trace
Ev(sig, offset, a, b) == [sig |-> sig, offset |-> offset, a |-> a, b |-> b]

Log(s, e) == [s EXCEPT !.trace = Append(@, e)]

----------------------------------------------------------------------------
(* The program's fields as one record *)

St == [queue |-> queue, headers_by_offset |-> headers_by_offset,
       force_network |-> force_network, in_flight |-> in_flight, done |-> done,
       total |-> total, max_concurrent |-> max_concurrent, network |-> network,
       frames |-> frames, refresh_in_progress |-> refresh_in_progress,
       progress_updated |-> progress_updated,
       progress_unchanged |-> progress_unchanged,
       current_index |-> current_index, loop_mode |-> loop_mode,
       play_direction |-> play_direction, data |-> data, dirty |-> dirty,
       files |-> files, metadata_file |-> metadata_file,
       connected |-> connected, trace |-> <<>>]

\* the initial state holds the fields of s
Starts(s) ==
    \E t \in {s} :
        /\ queue = t.queue
        /\ headers_by_offset = t.headers_by_offset
        /\ force_network = t.force_network
        /\ in_flight = t.in_flight
        /\ done = t.done
        /\ total = t.total
        /\ max_concurrent = t.max_concurrent
        /\ network = t.network
        /\ frames = t.frames
        /\ refresh_in_progress = t.refresh_in_progress
        /\ progress_updated = t.progress_updated
        /\ progress_unchanged = t.progress_unchanged
        /\ current_index = t.current_index
        /\ loop_mode = t.loop_mode
        /\ play_direction = t.play_direction
        /\ data = t.data
        /\ dirty = t.dirty
        /\ files = t.files
        /\ metadata_file = t.metadata_file
        /\ connected = t.connected
        /\ trace = t.trace

\* the next state holds the fields of s
Becomes(s) ==
    \E t \in {s} :
        /\ queue' = t.queue
        /\ headers_by_offset' = t.headers_by_offset
        /\ force_network' = t.force_network
        /\ in_flight' = t.in_flight
        /\ done' = t.done
        /\ total' = t.total
        /\ max_concurrent' = t.max_concurrent
        /\ network' = t.network
        /\ frames' = t.frames
        /\ refresh_in_progress' = t.refresh_in_progress
        /\ progress_updated' = t.progress_updated
        /\ progress_unchanged' = t.progress_unchanged
        /\ current_index' = t.current_index
        /\ loop_mode' = t.loop_mode
        /\ play_direction' = t.play_direction
        /\ data' = t.data
        /\ dirty' = t.dirty
        /\ files' = t.files
        /\ metadata_file' = t.metadata_file
        /\ connected' = t.connected
        /\ trace' = t.trace

----------------------------------------------------------------------------
(* ForecastCache *)

\* path_for that names one file for all keys
path_forShared(offset) == "ECMWF.png"

\* ForecastCache.path_for
path_for(offset) == "ECMWF_" \o Pad3(offset) \o ".png"

\* load without the isNull test
CacheLoadUnchecked(fs, offset) ==
    LET path == path_for(offset) IN
    IF path \notin DOMAIN fs THEN None ELSE fs[path].pixels

\* ForecastCache.load: None if the file is missing or does not decode
CacheLoad(fs, offset) ==
    LET path == path_for(offset) IN
    IF path \notin DOMAIN fs THEN None
    ELSE IF ~fs[path].valid THEN None
    ELSE fs[path].pixels

\* ForecastCache.save: pixmap.save(path, "PNG")
CacheSave(s, offset, pixmap) ==
    Log([s EXCEPT !.files = Put(@, path_for(offset), Png(pixmap))],
        Ev("cache.write", offset, pixmap, None))

----------------------------------------------------------------------------
(* MetadataCache *)

\* metadata.json: absent, or a document holding a table
NoDocument == [exists |-> FALSE, table |-> <<>>]
Document(table) == [exists |-> TRUE, table |-> table]

\* a metadata.json whose text json.loads rejects
Unparsable == [k \in {"<not JSON>"} |-> EmptyDict]

\* a metadata.json holding a JSON array: json.loads gives a list, an object
\* without get and setdefault
JsonArray == [k \in {"<list>"} |-> EmptyDict]

\* self.data is a dict
IsDict(d) == d # JsonArray

\* MetadataCache.headers_for, self.data being a dict
headers_for(d, offset) ==
    LET entry == Get(d, ToString(offset), EmptyDict) IN
    [etag |-> IF entry.etag # None THEN entry.etag ELSE None,
     last_modified |-> IF entry.last_modified # None THEN entry.last_modified ELSE None]

\* update that stores last_modified only when no etag is given
MetadataUpdateElif(s, offset, etag, last_modified) ==
    LET key == ToString(offset)
        entry == Get(s.data, key, EmptyDict)
        e2 == IF Truthy(etag) THEN [entry EXCEPT !.etag = etag]
              ELSE IF Truthy(last_modified)
              THEN [entry EXCEPT !.last_modified = last_modified]
              ELSE entry
    IN Log([s EXCEPT !.data = Put(@, key, e2), !.dirty = TRUE],
           Ev("metadata.update", offset, None, None))

\* update that stores its arguments as they are, an empty one removing the field
MetadataUpdateClears(s, offset, etag, last_modified) ==
    LET key == ToString(offset)
        e2 == [etag |-> IF Truthy(etag) THEN etag ELSE None,
               last_modified |-> IF Truthy(last_modified) THEN last_modified
                                 ELSE None]
    IN Log([s EXCEPT !.data = Put(@, key, e2), !.dirty = TRUE],
           Ev("metadata.update", offset, None, None))

\* update that keeps the record of the updated key only
MetadataUpdateOnlyLast(s, offset, etag, last_modified) ==
    LET key == ToString(offset)
        entry == Get(s.data, key, EmptyDict)
        e1 == IF Truthy(etag) THEN [entry EXCEPT !.etag = etag] ELSE entry
        e2 == IF Truthy(last_modified)
              THEN [e1 EXCEPT !.last_modified = last_modified] ELSE e1
    IN Log([s EXCEPT !.data = Put(<<>>, key, e2), !.dirty = TRUE],
           Ev("metadata.update", offset, None, None))

\* MetadataCache.update, self.data being a dict
MetadataUpdate(s, offset, etag, last_modified) ==
    LET key == ToString(offset)
        entry == Get(s.data, key, EmptyDict)
        e1 == IF Truthy(etag) THEN [entry EXCEPT !.etag = etag] ELSE entry
        e2 == IF Truthy(last_modified)
              THEN [e1 EXCEPT !.last_modified = last_modified] ELSE e1
    IN Log([s EXCEPT !.data = Put(@, key, e2), !.dirty = TRUE],
           Ev("metadata.update", offset, None, None))

\* save without the test of _dirty
MetadataSaveAlways(s) ==
    Log([s EXCEPT !.metadata_file = Document(s.data), !.dirty = FALSE],
        Ev("metadata.write", 0, None, None))

\* MetadataCache.save
MetadataSave(s) ==
    IF ~s.dirty THEN s
    ELSE Log([s EXCEPT !.metadata_file = Document(s.data), !.dirty = FALSE],
             Ev("metadata.write", 0, None, None))

----------------------------------------------------------------------------
(* MainWindow slots *)

\* _on_image_loaded that saves the validator table at once
OnImageLoadedSaves(s, offset, pixmap, meta) ==
    LET s1 == [s EXCEPT !.frames[offset] = pixmap]
        s2 == CacheSave(s1, offset, pixmap)
        s3 == MetadataUpdate(s2, offset, meta.etag, meta.last_modified)
    IN [MetadataSave(s3) EXCEPT !.progress_updated = @ + 1]

\* _on_image_loaded that does not write the image to the cache directory
OnImageLoadedSkipsCache(s, offset, pixmap, meta) ==
    LET s1 == [s EXCEPT !.frames[offset] = pixmap]
        s3 == MetadataUpdate(s1, offset, meta.etag, meta.last_modified)
    IN [s3 EXCEPT !.progress_updated = @ + 1]

\* MainWindow._on_image_loaded
OnImageLoaded(s, offset, pixmap, meta) ==
    LET s1 == [s EXCEPT !.frames[offset] = pixmap]
        s2 == CacheSave(s1, offset, pixmap)
        s3 == MetadataUpdate(s2, offset, meta.etag, meta.last_modified)
    IN [s3 EXCEPT !.progress_updated = @ + 1]

\* _on_image_not_modified that also touches the validator record of the key
OnImageNotModifiedTouches(s, offset) ==
    [MetadataUpdate(s, offset, None, None) EXCEPT !.progress_unchanged = @ + 1]

\* _on_image_not_modified that does not count
OnImageNotModifiedUncounted(s, offset) == s

\* MainWindow._on_image_not_modified
OnImageNotModified(s, offset) == [s EXCEPT !.progress_unchanged = @ + 1]

\* _on_image_error that drops the frame of the failed key
OnImageErrorDropsFrame(s, offset, error_text) ==
    [s EXCEPT !.frames[offset] = None]

\* MainWindow._on_image_error: only the status label changes
OnImageError(s, offset, error_text) == s

\* MainWindow._on_fetch_progress: only the progress label changes
OnFetchProgress(s, d, t) == s

\* _on_batch_finished that also empties the frame table
OnBatchFinishedDropsFrames(s) ==
    MetadataSave([s EXCEPT !.refresh_in_progress = FALSE,
                           !.frames = [o \in DOMAIN s.frames |-> None]])

\* _on_batch_finished that leaves _refresh_in_progress set
OnBatchFinishedKeepsFlag(s) == MetadataSave(s)

\* MainWindow._on_batch_finished
OnBatchFinished(s) == MetadataSave([s EXCEPT !.refresh_in_progress = FALSE])

----------------------------------------------------------------------------
(* ImageFetcher *)

\* set_max_concurrent without the clamp to at least 1
SetMaxConcurrentUnclamped(s, value) == [s EXCEPT !.max_concurrent = value]

\* ImageFetcher.set_max_concurrent: max(1, int(value))
SetMaxConcurrentTo(s, value) ==
    [s EXCEPT !.max_concurrent = IF value < 1 THEN 1 ELSE value]

\* the request built with If-Modified-Since only when there is no etag
BuildRequestElif(s, offset) ==
    LET headers == Get(s.headers_by_offset, offset, EmptyDict)
        etag == headers.etag
        last_modified == headers.last_modified
    IN [offset |-> offset,
        url |-> BaseUrlFormat(offset),
        cache_load_control |-> IF s.force_network THEN "AlwaysNetwork"
                               ELSE "PreferNetwork",
        if_none_match |-> IF Truthy(etag) THEN etag ELSE None,
        if_modified_since |-> IF ~Truthy(etag) /\ Truthy(last_modified)
                              THEN last_modified ELSE None]

\* the request _start_more builds for offset
BuildRequest(s, offset) ==
    LET headers == Get(s.headers_by_offset, offset, EmptyDict)
        etag == headers.etag
        last_modified == headers.last_modified
    IN [offset |-> offset,
        url |-> BaseUrlFormat(offset),
        cache_load_control |-> IF s.force_network THEN "AlwaysNetwork"
                               ELSE "PreferNetwork",
        if_none_match |-> IF Truthy(etag) THEN etag ELSE None,
        if_modified_since |-> IF Truthy(last_modified) THEN last_modified ELSE None]

\* one turn of the loop with pop() in place of popleft()
StartOneFromBack(s) ==
    LET offset == s.queue[Len(s.queue)] IN
    Log([s EXCEPT !.queue = SubSeq(@, 1, Len(@) - 1),
                  !.network = Append(@, BuildRequest(s, offset)),
                  !.in_flight = @ + 1],
        Ev("request", offset, None, None))

\* one turn of the loop of _start_more
StartOne(s) ==
    LET offset == Head(s.queue) IN
    Log([s EXCEPT !.queue = Tail(@),
                  !.network = Append(@, BuildRequest(s, offset)),
                  !.in_flight = @ + 1],
        Ev("request", offset, None, None))

\* _start_more admitting while in_flight <= max_concurrent
RECURSIVE StartMoreOffByOne(_)
StartMoreOffByOne(s) ==
    IF s.in_flight <= s.max_concurrent /\ s.queue # <<>>
    THEN StartMoreOffByOne(StartOne(s))
    ELSE s

\* _start_more with an if in place of the while
StartMoreOnce(s) ==
    IF s.in_flight < s.max_concurrent /\ s.queue # <<>> THEN StartOne(s) ELSE s

\* ImageFetcher._start_more
RECURSIVE StartMore(_)
StartMore(s) ==
    IF s.in_flight < s.max_concurrent /\ s.queue # <<>>
    THEN StartMore(StartOne(s))
    ELSE s

\* signal.emit(...): the signal is recorded, and the connected slot runs
EmitBatchFinished(s) ==
    LET s1 == Log(s, Ev("batchFinished", 0, None, None)) IN
    IF s.connected THEN OnBatchFinished(s1) ELSE s1

EmitNotModified(s, offset) ==
    LET s1 == Log(s, Ev("notModified", offset, None, None)) IN
    IF s.connected THEN OnImageNotModified(s1, offset) ELSE s1

EmitImageLoaded(s, offset, pixmap, meta) ==
    LET s1 == Log(s, Ev("imageLoaded", offset, pixmap, meta)) IN
    IF s.connected THEN OnImageLoaded(s1, offset, pixmap, meta) ELSE s1

EmitImageError(s, offset, error_text) ==
    LET s1 == Log(s, Ev("imageError", offset, error_text, None)) IN
    IF s.connected THEN OnImageError(s1, offset, error_text) ELSE s1

EmitProgressChanged(s, d, t) ==
    LET s1 == Log(s, Ev("progressChanged", 0, d, t)) IN
    IF s.connected THEN OnFetchProgress(s1, d, t) ELSE s1

\* fetch_offsets without the empty-batch case
FetchOffsetsNoEmptyCase(s, offsets, headers, force) ==
    StartMore([s EXCEPT !.queue = offsets,
                        !.headers_by_offset = headers,
                        !.force_network = force,
                        !.in_flight = 0,
                        !.done = 0,
                        !.total = Len(offsets)])

\* fetch_offsets that does not reset _done
FetchOffsetsKeepsDone(s, offsets, headers, force) ==
    LET s1 == [s EXCEPT !.queue = offsets,
                        !.headers_by_offset = headers,
                        !.force_network = force,
                        !.in_flight = 0,
                        !.total = Len(offsets)]
    IN IF s1.total = 0 THEN EmitBatchFinished(s1) ELSE StartMore(s1)

\* ImageFetcher.fetch_offsets
FetchOffsetsFrom(s, offsets, headers, force) ==
    LET s1 == [s EXCEPT !.queue = offsets,
                        !.headers_by_offset = headers,
                        !.force_network = force,
                        !.in_flight = 0,
                        !.done = 0,
                        !.total = Len(offsets)]
    IN IF s1.total = 0 THEN EmitBatchFinished(s1) ELSE StartMore(s1)

\* the meta dict _on_finished builds from the reply's ETag and Last-Modified headers
ReplyMeta(r) ==
    LET etag == Strip(r.etag)
        last_modified == Strip(r.last_modified)
    IN [etag |-> IF Truthy(etag) THEN etag ELSE None,
        last_modified |-> IF Truthy(last_modified) THEN last_modified ELSE None]

\* the classification with the transport error tested before the status
ClassifyErrorFirst(s, offset, r) ==
    IF r.error # "NoError"
    THEN EmitImageError(s, offset, r.error)
    ELSE IF r.status = 304
    THEN EmitNotModified(s, offset)
    ELSE IF r.body.valid
    THEN EmitImageLoaded(s, offset, r.body.pixels, ReplyMeta(r))
    ELSE EmitImageError(s, offset, "invalid image data")

\* the classification that puts a key back on the queue when its request failed
ClassifyRetriesError(s, offset, r) ==
    IF r.status = 304
    THEN EmitNotModified(s, offset)
    ELSE IF r.error = "NoError"
    THEN IF r.body.valid
         THEN EmitImageLoaded(s, offset, r.body.pixels, ReplyMeta(r))
         ELSE EmitImageError(s, offset, "invalid image data")
    ELSE [EmitImageError(s, offset, r.error) EXCEPT !.queue = Append(@, offset)]

\* the classification of _on_finished and the signal it emits
Classify(s, offset, r) ==
    IF r.status = 304
    THEN EmitNotModified(s, offset)
    ELSE IF r.error = "NoError"
    THEN IF r.body.valid
         THEN EmitImageLoaded(s, offset, r.body.pixels, ReplyMeta(r))
         ELSE EmitImageError(s, offset, "invalid image data")
    ELSE EmitImageError(s, offset, r.error)

\* the end of _on_finished, finishing the batch as soon as the queue is empty
AccountWhenQueueEmpty(s) ==
    LET s1 == [s EXCEPT !.in_flight = @ - 1, !.done = @ + 1]
        s2 == EmitProgressChanged(s1, s1.done, s1.total)
    IN IF s2.queue = <<>> THEN EmitBatchFinished(s2) ELSE StartMore(s2)

\* the end of _on_finished emitting progressChanged before it counts
AccountProgressFirst(s) ==
    LET s1 == EmitProgressChanged(s, s.done, s.total)
        s2 == [s1 EXCEPT !.in_flight = @ - 1, !.done = @ + 1]
    IN IF s2.done = s2.total THEN EmitBatchFinished(s2) ELSE StartMore(s2)

\* the end of _on_finished: counters, progress, batchFinished or _start_more
Account(s) ==
    LET s1 == [s EXCEPT !.in_flight = @ - 1, !.done = @ + 1]
        s2 == EmitProgressChanged(s1, s1.done, s1.total)
    IN IF s2.done = s2.total THEN EmitBatchFinished(s2) ELSE StartMore(s2)

\* ImageFetcher._on_finished for the i-th outstanding request answered by r
OnFinishedFrom(s, i, r) ==
    LET offset == s.network[i].offset
        s1 == [s EXCEPT !.network = RemoveAt(@, i)]
    IN Account(Classify(s1, offset, r))

----------------------------------------------------------------------------
(* The environment: what the server may answer, what the disk may hold *)

Errors == {"NoError", "ConnectionRefusedError"}

\* replies with status 304: with and without a transport error
NotModifiedReplies ==
    [status : {304}, error : Errors, body : {Png("img2")},
     etag : {"e2"}, last_modified : {""}]

\* replies without transport error: a new image with no validator, a blank
\* ETag, an ETag alone or both validators, and an undecodable body that carries
\* validators
SuccessReplies ==
    {[status |-> 200, error |-> "NoError", body |-> Png("img2"),
      etag |-> v[1], last_modified |-> v[2]] :
        v \in {<<"", "">>, <<" ", "m2">>, <<"e2", "">>, <<"e2", "m2">>}}
    \cup {[status |-> 200, error |-> "NoError", body |-> Garbage,
           etag |-> "e2", last_modified |-> "m2"]}

\* transport failures: no HTTP response (status 0), or a response cut short
\* whose body decodes
FailureReplies ==
    {[status |-> 0, error |-> "ConnectionRefusedError", body |-> Garbage,
      etag |-> "", last_modified |-> ""],
     [status |-> 200, error |-> "ConnectionRefusedError", body |-> Png("img1"),
      etag |-> "e2", last_modified |-> "m2"]}

Replies == NotModifiedReplies \cup SuccessReplies \cup FailureReplies

\* the replies of the fetcher-level specification
FewReplies ==
    {r \in Replies :
        r.last_modified = "" \/ r.body = Garbage}

\* image files of a cache directory: a decodable file for every key, and the
\* same with a first file that does not decode
AllFiles == [f \in {path_for(o) : o \in Offsets} |-> Png("img1")]

FirstFileBroken ==
    [f \in {path_for(o) : o \in Offsets} |->
        IF f = path_for(build_offsets[1]) THEN Garbage ELSE Png("img1")]

\* validator tables of a cache directory: both validators for every key, and an
\* etag for the first key alone
AllRecords ==
    [k \in {ToString(o) : o \in Offsets} |-> [etag |-> "e1", last_modified |-> "m1"]]

FirstRecordOnly ==
    [k \in {ToString(build_offsets[1])} |-> [etag |-> "e1", last_modified |-> None]]

\* what the cache directory may hold at startup: nothing; files and validators
\* of every key; validators without any file; a first file that does not decode
\* while metadata.json records an etag for its key
StartDirs ==
    {[files |-> <<>>, doc |-> NoDocument],
     [files |-> AllFiles, doc |-> Document(AllRecords)],
     [files |-> <<>>, doc |-> Document(AllRecords)],
     [files |-> FirstFileBroken, doc |-> Document(FirstRecordOnly)]}

\* MetadataCache._load: {} if the file is missing or json.loads raises, else
\* whatever json.loads returns
MetadataLoad(doc) ==
    IF ~doc.exists THEN <<>>
    ELSE IF doc.table = Unparsable THEN <<>>
    ELSE doc.table

\* MainWindow.__init__ up to _start_initial_refresh, on a cache directory holding
\* fs and doc, with current_index idx restored by _load_settings
Constructed(fs, doc, idx, conn) ==
    [queue |-> <<>>, headers_by_offset |-> <<>>, force_network |-> FALSE,
     in_flight |-> 0, done |-> 0, total |-> 0,
     max_concurrent |-> IF DEFAULT_MAX_CONCURRENT < 1 THEN 1
                        ELSE DEFAULT_MAX_CONCURRENT,
     network |-> <<>>,
     frames |-> [o \in Offsets |-> CacheLoad(fs, o)],
     refresh_in_progress |-> FALSE, progress_updated |-> 0,
     progress_unchanged |-> 0, current_index |-> idx,
     loop_mode |-> LOOP_MODES[1], play_direction |-> 1,
     data |-> MetadataLoad(doc), dirty |-> FALSE,
     files |-> fs, metadata_file |-> doc, connected |-> conn, trace |-> <<>>]

----------------------------------------------------------------------------
(* Priority planner *)

\* add_index without the seen set
add_indexUnseen(offsets, order, idx) == Append(order, offsets[idx + 1])

\* add_index of _build_priority_offsets, over self.offsets == offsets
add_index(offsets, order, idx) ==
    LET offset == offsets[idx + 1] IN
    IF \E j \in 1..Len(order) : order[j] = offset THEN order
    ELSE Append(order, offset)

\* the loop over delta that takes the key behind before the key ahead
RECURSIVE AddNeighborsBehindFirst(_, _, _, _)
AddNeighborsBehindFirst(offsets, order, cur, delta) ==
    IF delta > NEIGHBOR_PREFETCH THEN order
    ELSE AddNeighborsBehindFirst(offsets,
            add_index(offsets,
                      add_index(offsets, order, (cur - delta) % Len(offsets)),
                      (cur + delta) % Len(offsets)),
            cur, delta + 1)

\* the loop over delta = 1..NEIGHBOR_PREFETCH
RECURSIVE AddNeighbors(_, _, _, _)
AddNeighbors(offsets, order, cur, delta) ==
    IF delta > NEIGHBOR_PREFETCH THEN order
    ELSE AddNeighbors(offsets,
            add_index(offsets,
                      add_index(offsets, order, (cur + delta) % Len(offsets)),
                      (cur - delta) % Len(offsets)),
            cur, delta + 1)

\* the final loop over self.offsets: every key not yet seen, in list order
AddRest(offsets, order) ==
    LET unseen(offset) == ~\E j \in 1..Len(order) : order[j] = offset
    IN order \o SelectSeq(offsets, unseen)

\* _build_priority_offsets with self.offsets == offsets, self.current_index == cur
BuildPriorityOffsetsOf(offsets, cur) ==
    AddRest(offsets,
            AddNeighbors(offsets, add_index(offsets, <<>>, cur), cur, 1))

\* MainWindow._build_priority_offsets
BuildPriorityOffsets(cur) == BuildPriorityOffsetsOf(build_offsets, cur)

----------------------------------------------------------------------------
(* Operations *)

Idle == in_flight = 0 /\ queue = <<>> /\ network = <<>>

NoReply == [status |-> 0, error |-> "NoError", body |-> Garbage,
            etag |-> "", last_modified |-> ""]

Call(op, offset, reply, arg) ==
    [op |-> op, offset |-> offset, reply |-> reply, arg |-> arg]

\* refresh_images without the test of _refresh_in_progress
RefreshImagesUnguarded(s) ==
    LET s1 == [s EXCEPT !.refresh_in_progress = TRUE,
                        !.progress_updated = 0,
                        !.progress_unchanged = 0]
        headers == [o \in Offsets |-> headers_for(s1.data, o)]
    IN FetchOffsetsFrom(s1, BuildPriorityOffsets(s1.current_index),
                        headers, FALSE)

\* refresh_images that leaves the counts of the previous batch
RefreshImagesKeepsCounts(s) ==
    IF s.refresh_in_progress THEN s
    ELSE LET s1 == [s EXCEPT !.refresh_in_progress = TRUE]
             headers == [o \in Offsets |-> headers_for(s1.data, o)]
         IN FetchOffsetsFrom(s1, BuildPriorityOffsets(s1.current_index),
                             headers, FALSE)

\* MainWindow.refresh_images
RefreshImagesFrom(s) ==
    IF s.refresh_in_progress THEN s
    ELSE LET s1 == [s EXCEPT !.refresh_in_progress = TRUE,
                             !.progress_updated = 0,
                             !.progress_unchanged = 0]
             headers == [o \in Offsets |-> headers_for(s1.data, o)]
         IN FetchOffsetsFrom(s1, BuildPriorityOffsets(s1.current_index),
                             headers, FALSE)

\* the refresh button is clicked or the refresh timer fires
RefreshImages ==
    /\ Becomes(RefreshImagesFrom(St))
    /\ call' = Call("refresh_images", 0, NoReply, refresh_in_progress)

\* the reply to the i-th outstanding request arrives: _on_finished runs
OnFinished(i, r) ==
    /\ i \in 1..Len(network)
    /\ Becomes(OnFinishedFrom(St, i, r))
    /\ call' = Call("_on_finished", network[i].offset, r, FALSE)

\* the header mappings a direct caller of fetch_offsets passes
HeaderMaps ==
    {<<>>,
     [o \in Offsets |-> headers_for(data, o)],
     [o \in Offsets |-> [etag |-> "e1", last_modified |-> "m1"]],
     [o \in {build_offsets[1]} |-> [etag |-> "", last_modified |-> "m1"]]}

\* the key sequences a direct caller of fetch_offsets passes
KeySequences == UNION {[1..n -> Offsets] : n \in 0..MaxBatchLen}

\* fetch_offsets called directly, by a caller that starts one batch at a time
FetchOffsets(offsets, headers, force) ==
    /\ Idle
    /\ Becomes(FetchOffsetsFrom(St, offsets, headers, force))
    /\ call' = Call("fetch_offsets", 0, NoReply,
                     [offsets |-> offsets, headers |-> headers, force |-> force])

\* set_max_concurrent called between batches
SetMaxConcurrent(value) ==
    /\ Idle
    /\ Becomes(SetMaxConcurrentTo(St, value))
    /\ call' = Call("set_max_concurrent", value, NoReply, FALSE)

----------------------------------------------------------------------------
(* Specifications *)

\* The application: MainWindow() on some cache directory, showing the first
\* frame (no current index stored by an earlier run); its constructor ends
\* with the initial refresh_images().  The program has 40 keys and a cap of 4,
\* so keys wait in the queue; with NumOffsets keys the default cap never makes
\* one wait, hence the fetcher's set_max_concurrent may be called between
\* batches with 1 (requests one after the other) or with the default again.
Init ==
    \E dir \in StartDirs :
        /\ Starts(RefreshImagesFrom(Constructed(dir.files, dir.doc, 0, TRUE)))
        /\ call = Call("__init__", 0, NoReply, FALSE)

Next ==
    \/ RefreshImages
    \/ \E value \in {1, DEFAULT_MAX_CONCURRENT} : SetMaxConcurrent(value)
    \/ \E i \in 1..Len(network), r \in Replies : OnFinished(i, r)

Spec == Init /\ [][Next]_vars

\* The fetcher alone, as ImageFetcher.__init__ leaves it, driven through its own
\* interface by a caller that starts one batch at a time; no slot is connected,
\* so the window, the caches and the disk stay as they are.
InitFetcher ==
    /\ Starts(Constructed(<<>>, NoDocument, 0, FALSE))
    /\ call = Call("__init__", 0, NoReply, FALSE)

NextFetcher ==
    \/ \E offsets \in KeySequences, headers \in HeaderMaps, force \in BOOLEAN :
            FetchOffsets(offsets, headers, force)
    \/ \E value \in 0..MaxCap : SetMaxConcurrent(value)
    \/ \E i \in 1..Len(network), r \in FewReplies : OnFinished(i, r)

SpecFetcher == InitFetcher /\ [][NextFetcher]_vars

\* one reply of each terminal outcome: not modified, decodable success,
\* undecodable success, transport failure
OutcomeReplies ==
    {r \in FewReplies : r.etag = "e2" /\ r.error = "NoError"}
    \cup {r \in FailureReplies : r.status = 0}

\* a request is answered with some terminal outcome
Answer == \E i \in 1..Len(network), r \in OutcomeReplies : OnFinished(i, r)

NextTermination ==
    \/ \E offsets \in KeySequences : FetchOffsets(offsets, <<>>, FALSE)
    \/ \E value \in 0..MaxCap : SetMaxConcurrent(value)
    \/ Answer

\* The fetcher alone, where every outstanding request is answered in the end: the
\* network layer reports a terminal outcome for each request it was given.
SpecTermination == InitFetcher /\ [][NextTermination]_vars /\ WF_vars(Answer)

----------------------------------------------------------------------------
(* Properties *)

\* the names of the signals emitted by the last handler, in order
Signals == {"imageLoaded", "notModified", "imageError", "progressChanged",
            "batchFinished"}

IsSignal(e) == e.sig \in Signals

Emitted == SelectSeq(trace, IsSignal)

EmittedNames == [i \in 1..Len(Emitted) |-> Emitted[i].sig]

Count(tr, sig) == Cardinality({i \in 1..Len(tr) : tr[i].sig = sig})

\* C1: in every reachable state of a batch started by fetch_offsets, the number of
\* requests issued and not yet answered, and the fetcher's own in-flight counter,
\* are at most the cap set by set_max_concurrent.
C1_InFlightWithinCap ==
    /\ Len(network) <= max_concurrent
    /\ in_flight <= max_concurrent

\* C1 witness: the cap is reached while keys are still queued.
C1_CapReachedWithQueue ==
    /\ Len(network) = max_concurrent
    /\ max_concurrent = MaxCap
    /\ queue # <<>>

\* C2: every response handled increases completed by exactly 1 and leaves total
\* alone; a start call or a response handler emits batchFinished exactly once if
\* it leaves completed = total and not at all otherwise; and once completed =
\* total no further response is handled in that batch, so it never fires again.
C2_CompletedAndBatchFinished ==
    [][/\ call'.op = "_on_finished" => done' = done + 1 /\ total' = total
       /\ call'.op \in {"_on_finished", "fetch_offsets"} =>
            Count(trace', "batchFinished") = IF done' = total' THEN 1 ELSE 0
       /\ done = total => call'.op # "_on_finished"]_vars

\* C2 witness: the last response of a batch of several keys has been handled.
C2_LastResponseHandled ==
    /\ call.op = "_on_finished"
    /\ total > 1
    /\ done = total
    /\ Count(trace, "batchFinished") = 1

\* C3: when every issued request is answered in the end, every batch started by
\* fetch_offsets reaches completed = total with batchFinished fired, for every
\* key sequence and every value given to set_max_concurrent; every response,
\* whatever its outcome, takes exactly one key out of the keys still to resolve
\* (queued or outstanding), so an error is counted like a success and its key is
\* not queued again.
C3_EveryBatchTerminates ==
    /\ (call.op = "fetch_offsets") ~> (done = total /\ Count(trace, "batchFinished") = 1)
    /\ [][call'.op = "_on_finished" =>
            /\ Len(queue') + Len(network') = Len(queue) + Len(network) - 1
            /\ done' = done + 1]_vars

\* C3 witness: a batch of several keys, run with the cap clamped to 1, is finished
\* by a transport failure.
C3_FinishedByFailure ==
    /\ call.op = "_on_finished"
    /\ call.reply.error # "NoError"
    /\ call.reply.status # 304
    /\ max_concurrent = 1
    /\ total > 1
    /\ done = total
    /\ Count(trace, "batchFinished") = 1

\* C4: fetch_offsets with an empty key sequence emits batchFinished inside the
\* call, emits nothing else and issues no request.
C4_EmptyBatch ==
    (call.op = "fetch_offsets" /\ call.arg.offsets = <<>>) =>
        /\ EmittedNames = <<"batchFinished">>
        /\ Count(trace, "request") = 0
        /\ network = <<>>

\* C4 witness: fetch_offsets has just been called with an empty key sequence.
C4_EmptyBatchStarted ==
    /\ call.op = "fetch_offsets"
    /\ call.arg.offsets = <<>>
    /\ trace # <<>>

\* C5 (as claimed): in a batch started with force_network true no outstanding
\* request carries If-None-Match or If-Modified-Since.
C5_ForceSendsNoConditionalHeader ==
    force_network =>
        \A i \in 1..Len(network) :
            /\ network[i].if_none_match = None
            /\ network[i].if_modified_since = None


\* the reply just handled, and how _on_finished is to classify it
Handled(c) == c.op = "_on_finished"

IsNotModified(r) == r.status = 304

IsFailure(r) == r.error # "NoError"

IsUndecodableSuccess(r) == r.status # 304 /\ r.error = "NoError" /\ ~r.body.valid

IsAccepted(r) == r.status # 304 /\ r.error = "NoError" /\ r.body.valid

\* the position of the first entry of tr with the given name (0: none)
Pos(tr, sig) ==
    IF \E i \in 1..Len(tr) : tr[i].sig = sig
    THEN CHOOSE i \in 1..Len(tr) :
            tr[i].sig = sig /\ \A j \in 1..(i - 1) : tr[j].sig # sig
    ELSE 0

\* the record the validator table holds for offset ({} if none)
Record(d, offset) == Get(d, ToString(offset), EmptyDict)

\* C6: in a batch started without force_network every outstanding request carries
\* If-None-Match equal to the etag and If-Modified-Since equal to the
\* last_modified of the validator record of its key, each header present exactly
\* when the field is present; a key without record gets no conditional header.
C6_ConditionalHeadersFromStore ==
    ~force_network =>
        \A i \in 1..Len(network) :
            /\ network[i].if_none_match = Record(data, network[i].offset).etag
            /\ network[i].if_modified_since
                  = Record(data, network[i].offset).last_modified

\* C6 witness: with the cap at 1, the request issued by _start_more after a
\* response was handled carries the etag an earlier batch stored and the
\* last_modified read from metadata.json at startup.
C6_HeadersFromEarlierBatch ==
    /\ call.op = "_on_finished"
    /\ max_concurrent = 1
    /\ Len(network) = 1
    /\ network[1].if_none_match = "e2"
    /\ network[1].if_modified_since = "m1"

\* C7 (as claimed): handling a response with status 304 causes no write: it leaves
\* the content file of the key, the validator table, its dirty flag, metadata.json
\* and the frame table unchanged.
C7_NotModifiedChangesNothing ==
    [][(Handled(call') /\ IsNotModified(call'.reply)) =>
            /\ Get(files', path_for(call'.offset), Garbage)
                  = Get(files, path_for(call'.offset), Garbage)
            /\ DOMAIN files' = DOMAIN files
            /\ data' = data
            /\ dirty' = dirty
            /\ metadata_file' = metadata_file
            /\ frames' = frames]_vars

\* C7 (amended): handling a response with status 304 leaves every content file,
\* the validator table and the frame table unchanged; if it is not the last
\* response of the batch the dirty flag and metadata.json are unchanged too and
\* only notModified and progressChanged are emitted; if it is the last one,
\* batchFinished is emitted as well and its save() writes the table to
\* metadata.json when the store is dirty and leaves the flag cleared.
C7_NotModifiedWritesOnlyAtBatchEnd ==
    [][(Handled(call') /\ IsNotModified(call'.reply)) =>
            /\ files' = files
            /\ data' = data
            /\ frames' = frames
            /\ progress_unchanged' = progress_unchanged + 1
            /\ IF done' = total'
               THEN /\ dirty' = FALSE
                    /\ metadata_file'
                          = IF dirty THEN Document(data) ELSE metadata_file
                    /\ EmittedNames'
                          = <<"notModified", "progressChanged", "batchFinished">>
               ELSE /\ dirty' = dirty
                    /\ metadata_file' = metadata_file
                    /\ EmittedNames' = <<"notModified", "progressChanged">>]_vars

\* C7 witness: a 304 response was the last of a batch in which an earlier response
\* was accepted, so that handling it saved the validator table.
C7_NotModifiedEndsDirtyBatch ==
    /\ Handled(call)
    /\ IsNotModified(call.reply)
    /\ done = total
    /\ Count(trace, "metadata.write") = 1
    /\ ~dirty

\* C8 (as claimed, for the responses whose status is not 304): handling a
\* transport failure, or a success whose body does not decode, emits imageError
\* for the key and leaves the content files, the validator table, its dirty flag
\* and the frame table unchanged.
C8_ErrorChangesNothing ==
    [][(/\ Handled(call')
        /\ ~IsNotModified(call'.reply)
        /\ (IsFailure(call'.reply) \/ IsUndecodableSuccess(call'.reply))) =>
            /\ Emitted'[1].sig = "imageError"
            /\ Emitted'[1].offset = call'.offset
            /\ files' = files
            /\ data' = data
            /\ dirty' = dirty
            /\ frames' = frames]_vars

\* C8 (amended): handling a response whose status is not 304 and that is a
\* transport failure or has a body that does not decode emits imageError for the
\* key and leaves the content files, the validator table and the frame table
\* unchanged; the dirty flag and metadata.json are unchanged unless the response is
\* the last of the batch, when batchFinished's save() writes the table if the store
\* is dirty and leaves the flag cleared.
C8_ErrorWritesOnlyAtBatchEnd ==
    [][(/\ Handled(call')
        /\ ~IsNotModified(call'.reply)
        /\ (IsFailure(call'.reply) \/ IsUndecodableSuccess(call'.reply))) =>
            /\ Emitted'[1].sig = "imageError"
            /\ Emitted'[1].offset = call'.offset
            /\ Count(trace', "imageError") = 1
            /\ Count(trace', "imageLoaded") = 0
            /\ Count(trace', "notModified") = 0
            /\ files' = files
            /\ data' = data
            /\ frames' = frames
            /\ IF done' = total'
               THEN /\ dirty' = FALSE
                    /\ metadata_file'
                          = IF dirty THEN Document(data) ELSE metadata_file
               ELSE /\ dirty' = dirty
                    /\ metadata_file' = metadata_file]_vars

\* C8 witness: an undecodable body that carries validators was handled in the
\* middle of a batch, for a key that has a frame and a validator record.
C8_UndecodableHandled ==
    /\ Handled(call)
    /\ IsUndecodableSuccess(call.reply)
    /\ call.reply.etag = "e2"
    /\ done < total
    /\ frames[call.offset] = "img1"
    /\ Record(data, call.offset).etag = "e1"

\* C9: every response handled emits exactly one of notModified, imageLoaded and
\* imageError, for the key of the request, before anything else: notModified if
\* the status is 304 (whatever the transport error), else imageLoaded if there is
\* no transport error and the body decodes, else imageError.
C9_OneOutcomeByPriority ==
    Handled(call) =>
        /\ Count(trace, "notModified") + Count(trace, "imageLoaded")
              + Count(trace, "imageError") = 1
        /\ trace[1].offset = call.offset
        /\ trace[1].sig =
              IF call.reply.status = 304 THEN "notModified"
              ELSE IF call.reply.error = "NoError" /\ call.reply.body.valid
              THEN "imageLoaded"
              ELSE "imageError"

\* C9 witness: a reply with status 304 and a transport error was classified as
\* notModified.
C9_NotModifiedDespiteError ==
    /\ Handled(call)
    /\ call.reply.status = 304
    /\ call.reply.error # "NoError"
    /\ trace[1].sig = "notModified"

\* C10: when a response is accepted for a key, the frame of that key becomes the
\* decoded image, the content file of that key is overwritten with it, each
\* validator the response carries (etag, last-modified, or both) is stored in the
\* validator record of that key, the frames, files and records of the other keys
\* are unchanged, and all of it precedes the progressChanged of that response.
C10_AcceptedContentWrittenThrough ==
    [][(Handled(call') /\ IsAccepted(call'.reply)) =>
        LET k == call'.offset
            r == call'.reply
        IN  /\ frames' = [frames EXCEPT ![k] = r.body.pixels]
            /\ files' = Put(files, path_for(k), Png(r.body.pixels))
            /\ CacheLoad(files', k) = r.body.pixels
            /\ DOMAIN data' = DOMAIN data \cup {ToString(k)}
            /\ \A x \in DOMAIN data : x # ToString(k) => data'[x] = data[x]
            /\ Truthy(Strip(r.etag)) => data'[ToString(k)].etag = Strip(r.etag)
            /\ Truthy(Strip(r.last_modified)) =>
                  data'[ToString(k)].last_modified = Strip(r.last_modified)
            /\ Pos(trace', "imageLoaded") = 1
            /\ Pos(trace', "cache.write") = 2
            /\ Pos(trace', "metadata.update") = 3
            /\ Pos(trace', "progressChanged") = 4]_vars

\* C10 witness: a response with a new image and both validators was accepted for a
\* key that had another image and other validators, next to a key that keeps its
\* own.
C10_BothValidatorsAccepted ==
    /\ Handled(call)
    /\ IsAccepted(call.reply)
    /\ call.reply.etag = "e2"
    /\ call.reply.last_modified = "m2"
    /\ call.reply.body = Png("img2")
    /\ frames[call.offset] = "img2"
    /\ Record(data, call.offset) = [etag |-> "e2", last_modified |-> "m2"]
    /\ \E o \in Offsets :
        /\ o # call.offset
        /\ frames[o] = "img1"
        /\ Record(data, o) = [etag |-> "e1", last_modified |-> "m1"]

----------------------------------------------------------------------------
(* C11: no record without a validator *)

\* C11: every record of the validator table holds an etag or a last_modified;
\* accepting a response without validators for an unknown key creates no record.
C11_NoEmptyRecord ==
    \A k \in DOMAIN data :
        data[k].etag # None \/ data[k].last_modified # None

----------------------------------------------------------------------------
(* The planner on its own *)

\* the largest key domain planned for: the program's list(range(6, 241, 6))
MaxKeys == 40

\* build_offsets() cut to its first n keys
KeyDomain(n) == [i \in 1..n |-> 6 * i]

\* what call.arg holds in the planner's specification
PlanArg(offsets, order) == [offsets |-> offsets, order |-> order]

\* a window over the first n keys, showing the key at index idx
InitPlanner ==
    \E n \in 1..MaxKeys :
        \E idx \in 0..(n - 1) :
            /\ Starts(Constructed(<<>>, NoDocument, idx, FALSE))
            /\ call = Call("__init__", 0, NoReply, PlanArg(KeyDomain(n), <<>>))

\* _build_priority_offsets()
BuildPlan ==
    /\ Becomes(St)
    /\ call' = Call("_build_priority_offsets", 0, NoReply,
                    PlanArg(call.arg.offsets,
                            BuildPriorityOffsetsOf(call.arg.offsets, current_index)))

NextPlanner == BuildPlan

SpecPlanner == InitPlanner /\ [][NextPlanner]_vars

\* the planner has run
Planned == call.op = "_build_priority_offsets"

\* how often key occurs in order
Occurrences(order, key) == Cardinality({j \in 1..Len(order) : order[j] = key})

\* C12: the planned order is a permutation of the key domain: every key of the
\* domain occurs exactly once and nothing else occurs.
C12_PlanIsPermutation ==
    Planned =>
        LET offsets == call.arg.offsets
            order == call.arg.order
        IN /\ Len(order) = Len(offsets)
           /\ \A i \in 1..Len(offsets) : Occurrences(order, offsets[i]) = 1
           /\ \A j \in 1..Len(order) : \E i \in 1..Len(offsets) : order[j] = offsets[i]

\* a plan for a domain so small that the neighbours wrap onto keys already placed
C12_PlannedWithWrap ==
    /\ Planned
    /\ Len(call.arg.offsets) = 3
    /\ current_index = 2
    /\ call.arg.order = <<18, 6, 12>>

\* the indices the planner tries first, in the order it tries them: the current
\* one, then one ahead and one behind for each distance up to NEIGHBOR_PREFETCH
Tried(n, i) ==
    [k \in 1..(2 * NEIGHBOR_PREFETCH + 1) |->
        IF k = 1 THEN i
        ELSE IF k % 2 = 0 THEN (i + (k \div 2)) % n
        ELSE (i - (k \div 2)) % n]

\* where key is first tried; 0 if it is not
FirstTried(offsets, i, key) ==
    LET tried == Tried(Len(offsets), i)
        at == {k \in 1..Len(tried) : offsets[tried[k] + 1] = key}
    IN IF at = {} THEN 0 ELSE CHOOSE k \in at : \A j \in at : k <= j

\* C13: the plan starts with the current key, then for each distance 1..radius
\* the key ahead and the key behind (wrapping around both ends, a key already
\* placed being skipped), and ends with all remaining keys in domain order; for
\* 40 keys and the current key 90 it starts with 90, 96, 84, 102, 78.
C13_PlanOrder ==
    Planned =>
        LET offsets == call.arg.offsets
            order == call.arg.order
            n == Len(offsets)
            tried == Tried(n, current_index)
            h == Cardinality({tried[k] : k \in 1..Len(tried)})
        IN /\ Len(order) = n
           /\ order[1] = offsets[current_index + 1]
           /\ \A p \in 1..h : FirstTried(offsets, current_index, order[p]) > 0
           /\ \A p \in 1..h : \A q \in (p + 1)..h :
                FirstTried(offsets, current_index, order[p])
                    < FirstTried(offsets, current_index, order[q])
           /\ \A p \in (h + 1)..n :
                /\ FirstTried(offsets, current_index, order[p]) = 0
                /\ \E i \in 1..n : order[p] = offsets[i]
           /\ \A p \in (h + 1)..(n - 1) : order[p] < order[p + 1]
           /\ (n = 40 /\ offsets[current_index + 1] = 90) =>
                SubSeq(order, 1, 5) = <<90, 96, 84, 102, 78>>

\* the plan for the program's 40 keys while key 90 is shown
C13_PlannedAroundKey90 ==
    /\ Planned
    /\ Len(call.arg.offsets) = 40
    /\ call.arg.offsets[current_index + 1] = 90
    /\ SubSeq(call.arg.order, 1, 7) = <<90, 96, 84, 102, 78, 6, 12>>

----------------------------------------------------------------------------
(* C14: one batch at a time *)

\* C14: a refresh requested while a batch is in progress is ignored: queue,
\* outstanding requests, in-flight count, counters and header mapping stay as
\* they are, nothing is requested or emitted; a refresh is accepted only when
\* the fetcher has nothing queued or outstanding.
C14_RefreshIgnoredWhileInProgress ==
    [][call'.op = "refresh_images" =>
        IF refresh_in_progress
        THEN /\ queue' = queue
             /\ network' = network
             /\ in_flight' = in_flight
             /\ done' = done
             /\ total' = total
             /\ headers_by_offset' = headers_by_offset
             /\ force_network' = force_network
             /\ progress_updated' = progress_updated
             /\ progress_unchanged' = progress_unchanged
             /\ refresh_in_progress'
             /\ trace' = <<>>
        ELSE /\ Idle
             /\ refresh_in_progress'
             /\ total' = NumOffsets
             /\ done' = 0]_vars

\* a refresh was asked for while one response of the batch was still awaited
C14_RefreshDuringBatch ==
    /\ call.op = "refresh_images"
    /\ call.arg = TRUE
    /\ refresh_in_progress
    /\ done = 1
    /\ Len(network) = 1

----------------------------------------------------------------------------
(* MetadataCache on its own *)

\* the keys the store is asked about: the first and the last
StoreKeys == {build_offsets[1], build_offsets[NumOffsets]}

\* what metadata.json may hold when the store is constructed: no file, text that
\* is not JSON, a JSON array, an empty object, records for every key, a record
\* with an etag alone
StoreDocuments ==
    {NoDocument, Document(Unparsable), Document(JsonArray), Document(<<>>),
     Document(AllRecords), Document(FirstRecordOnly)}

\* the validators update is called with: none, an empty etag with a
\* last_modified, an etag alone, both
UpdateArgs ==
    {[etag |-> None, last_modified |-> None],
     [etag |-> "", last_modified |-> "m2"],
     [etag |-> "e2", last_modified |-> None],
     [etag |-> "e2", last_modified |-> "m2"]}

\* MetadataCache(path) on a directory holding doc
InitStore ==
    \E doc \in StoreDocuments :
        /\ Starts(Constructed(<<>>, doc, 0, FALSE))
        /\ call = Call("MetadataCache", 0, NoReply, FALSE)

\* what call.arg holds after update and headers_for: the arguments, the
\* exception that escaped (None: none) and the value returned
StoreArg(etag, last_modified, raised, result) ==
    [etag |-> etag, last_modified |-> last_modified, raised |-> raised,
     result |-> result]

\* metadata.update(offset, etag, last_modified); on a list setdefault raises
\* AttributeError before anything is changed
Update(offset, a) ==
    /\ Becomes(IF IsDict(data)
               THEN MetadataUpdate(St, offset, a.etag, a.last_modified)
               ELSE St)
    /\ call' = Call("update", offset, NoReply,
                    StoreArg(a.etag, a.last_modified,
                             IF IsDict(data) THEN None ELSE "AttributeError",
                             EmptyDict))

\* metadata.headers_for(offset); on a list get raises AttributeError
HeadersFor(offset) ==
    /\ Becomes(St)
    /\ call' = Call("headers_for", offset, NoReply,
                    IF IsDict(data)
                    THEN StoreArg(None, None, None, headers_for(data, offset))
                    ELSE StoreArg(None, None, "AttributeError", EmptyDict))

\* metadata.save()
Save ==
    /\ Becomes(MetadataSave(St))
    /\ call' = Call("save", 0, NoReply, dirty)

NextStore ==
    \/ \E offset \in StoreKeys, a \in UpdateArgs : Update(offset, a)
    \/ \E offset \in StoreKeys : HeadersFor(offset)
    \/ Save

SpecStore == InitStore /\ [][NextStore]_vars

\* C15: save() writes the document and clears the dirty flag only if the store
\* is dirty: a save right after a save writes nothing, and so does a save on a
\* store not updated since it was loaded.
C15_SaveIdempotent ==
    /\ [][call'.op = "save" =>
            /\ ~dirty'
            /\ data' = data
            /\ IF dirty
               THEN /\ Count(trace', "metadata.write") = 1
                    /\ metadata_file' = Document(data)
               ELSE /\ Count(trace', "metadata.write") = 0
                    /\ metadata_file' = metadata_file]_vars
    /\ [][(call.op \in {"save", "MetadataCache"} /\ call'.op = "save") =>
            /\ Count(trace', "metadata.write") = 0
            /\ metadata_file' = metadata_file]_vars

\* a save that wrote the table is followed by a save that wrote nothing
C15_SavedTwice ==
    /\ call.op = "save"
    /\ call.arg = FALSE
    /\ ~dirty
    /\ trace = <<>>
    /\ metadata_file = Document(data)
    /\ IsDict(data)
    /\ data # <<>>
    /\ data # AllRecords
    /\ data # FirstRecordOnly

----------------------------------------------------------------------------
(* C16: lazy save *)

\* C16: metadata.json is written only when the table differs from what was last
\* loaded or saved; a batch whose accepted responses carry the validators
\* already recorded writes nothing.
C16_WrittenOnlyIfChanged ==
    [][Count(trace', "metadata.write") > 0 =>
            data' # MetadataLoad(metadata_file)]_vars

----------------------------------------------------------------------------
(* C17: malformed metadata.json *)

\* metadata.json holds something other than a table of records
Malformed(doc) == doc.exists /\ doc.table \in {Unparsable, JsonArray}

\* C17: whatever metadata.json holds, the store is constructed; from a malformed
\* document it loads as empty, headers_for and update never fail, headers_for
\* returns the empty mapping for a key without record, and a save after an
\* update leaves a document holding exactly the table.
C17_MalformedLoadsEmpty ==
    /\ (call.op = "MetadataCache" /\ Malformed(metadata_file)) => data = <<>>
    /\ call.op \in {"headers_for", "update"} => call.arg.raised = None
    /\ (call.op = "headers_for" /\ ToString(call.offset) \notin DOMAIN data) =>
            call.arg.result = EmptyDict
    /\ (call.op = "save" /\ call.arg = TRUE) =>
            /\ IsDict(data)
            /\ metadata_file = Document(data)

----------------------------------------------------------------------------
(* C18: update merges *)

\* C18: update(key, etag, last_modified) overwrites a field of the key's record
\* with a non-empty argument and keeps the stored field for an empty or absent
\* one, leaves the records of all other keys as they are and marks the store
\* dirty; headers_for(key) then returns exactly the merged fields.
C18_UpdateMerges ==
    [][(call'.op = "update" /\ IsDict(data)) =>
        LET key == ToString(call'.offset)
            old == Record(data, call'.offset)
            merged == [etag |-> IF Truthy(call'.arg.etag)
                                THEN call'.arg.etag ELSE old.etag,
                       last_modified |-> IF Truthy(call'.arg.last_modified)
                                         THEN call'.arg.last_modified
                                         ELSE old.last_modified]
        IN /\ call'.arg.raised = None
           /\ DOMAIN data' = DOMAIN data \cup {key}
           /\ data'[key] = merged
           /\ \A k \in DOMAIN data \ {key} : data'[k] = data[k]
           /\ dirty'
           /\ headers_for(data', call'.offset) = merged
           /\ metadata_file' = metadata_file]_vars

\* an update with an empty etag and a last_modified, on a record that had both
C18_EtagKeptLastModifiedReplaced ==
    /\ call.op = "update"
    /\ call.arg.etag = ""
    /\ call.arg.last_modified = "m2"
    /\ Record(data, call.offset) = [etag |-> "e1", last_modified |-> "m2"]
    /\ \E o \in StoreKeys :
        /\ o # call.offset
        /\ Record(data, o) = [etag |-> "e1", last_modified |-> "m1"]
    /\ dirty

----------------------------------------------------------------------------
(* ForecastCache on its own *)

\* the keys the cache is asked about: those of the window and the last of the
\* largest domain, one with three digits
CacheKeys == Offsets \cup {KeyDomain(MaxKeys)[MaxKeys]}

\* ForecastCache(cache_dir) on a directory holding no file, a file for every
\* key of the window, or the same with a first file that does not decode
InitCache ==
    \E fs \in {<<>>, AllFiles, FirstFileBroken} :
        /\ Starts(Constructed(fs, NoDocument, 0, FALSE))
        /\ call = Call("ForecastCache", 0, NoReply, None)

\* cache.save(offset, pixmap)
CacheSaveCall(offset, pixmap) ==
    /\ Becomes(CacheSave(St, offset, pixmap))
    /\ call' = Call("cache.save", offset, NoReply, pixmap)

\* cache.load(offset); call.arg holds what it returns
CacheLoadCall(offset) ==
    /\ Becomes(St)
    /\ call' = Call("cache.load", offset, NoReply, CacheLoad(files, offset))

NextCache ==
    \/ \E offset \in CacheKeys, pixmap \in Pixels : CacheSaveCall(offset, pixmap)
    \/ \E offset \in CacheKeys : CacheLoadCall(offset)

SpecCache == InitCache /\ [][NextCache]_vars

----------------------------------------------------------------------------
(* C20: the frame table at startup *)

\* C20: the frame table has exactly the keys of the fixed domain, at startup and
\* ever after; when the constructor returns, a key whose file exists and decodes
\* has that image and every other key has no image yet.
C20_FramesSeededFromCache ==
    /\ DOMAIN frames = Offsets
    /\ call.op = "__init__" =>
        \A o \in Offsets :
            LET path == "ECMWF_" \o Pad3(o) \o ".png" IN
            IF path \in DOMAIN files /\ files[path].valid
            THEN frames[o] = files[path].pixels
            ELSE frames[o] = None

\* a window constructed on a directory whose first file does not decode while
\* the others do
C20_StartedWithBrokenFile ==
    /\ call.op = "__init__"
    /\ files = FirstFileBroken
    /\ frames[build_offsets[1]] = None
    /\ \A o \in Offsets \ {build_offsets[1]} : frames[o] = "img1"
    /\ Len(network) = NumOffsets

----------------------------------------------------------------------------
(* The window with its navigation *)

\* MainWindow._set_current_index: the slider and the view follow; the frame
\* table is only read (_update_current_frame)
SetCurrentIndexTo(s, index) == [s EXCEPT !.current_index = index]

\* MainWindow._prev_frame
PrevFrame(s) ==
    LET s1 == [s EXCEPT !.play_direction = -1] IN
    SetCurrentIndexTo(s1, (s1.current_index - 1) % NumOffsets)

\* MainWindow._next_frame_manual
NextFrameManual(s) ==
    LET s1 == [s EXCEPT !.play_direction = 1] IN
    SetCurrentIndexTo(s1, (s1.current_index + 1) % NumOffsets)

\* int(hours / 6) for hours = 24 or -24
JumpSteps(hours) == IF hours < 0 THEN 0 - ((0 - hours) \div 6) ELSE hours \div 6

\* MainWindow._jump_hours
JumpHours(s, hours) ==
    SetCurrentIndexTo(s, (s.current_index + JumpSteps(hours)) % NumOffsets)

\* MainWindow._on_slider_changed
OnSliderChanged(s, value) ==
    IF value # s.current_index THEN [s EXCEPT !.current_index = value] ELSE s

\* the previous or next button, a 24 h jump button, the Home or End key, or the
\* slider moved to a value of its range
Navigate ==
    \E s \in {PrevFrame(St), NextFrameManual(St), JumpHours(St, 24),
              JumpHours(St, -24), SetCurrentIndexTo(St, 0),
              SetCurrentIndexTo(St, NumOffsets - 1)}
             \cup {OnSliderChanged(St, value) : value \in 0..(NumOffsets - 1)} :
        /\ Becomes(s)
        /\ call' = Call("navigate", 0, NoReply, current_index)

\* one reply of each kind: not modified, a new image with both validators, a
\* new image with none, an undecodable body, a transport failure
WindowReplies ==
    {r \in NotModifiedReplies : r.error = "NoError"}
    \cup {r \in SuccessReplies :
            (r.etag = "e2" /\ r.last_modified = "m2") \/ r.etag = ""}
    \cup {r \in FailureReplies : r.status = 0}

NextWindow ==
    \/ RefreshImages
    \/ Navigate
    \/ \E i \in 1..Len(network), r \in WindowReplies : OnFinished(i, r)

\* The application as the user drives it: refresh button and timer, navigation,
\* and the replies to the requests of the batches.
SpecWindow == Init /\ [][NextWindow]_vars

\* C21: once seeded, the frame table changes only when an accepted response is
\* handled, which sets the entry of its key to the decoded image; a response
\* that is not modified or failed, progress, the end of a batch, navigation and
\* the start of a refresh leave it as it is, so an entry with an image never
\* goes back to no image.
C21_FramesChangeOnlyOnAccepted ==
    [][/\ (Handled(call') /\ IsAccepted(call'.reply)) =>
            /\ frames' = [frames EXCEPT ![call'.offset] = call'.reply.body.pixels]
            /\ call'.reply.body.pixels \in Pixels
       /\ ~(Handled(call') /\ IsAccepted(call'.reply)) => frames' = frames
       /\ frames' # frames => Count(trace', "imageLoaded") = 1
       /\ \A o \in Offsets : frames[o] # None => frames'[o] # None]_vars

\* the last response of a batch was a failure for a key whose frame holds an
\* image accepted earlier, while another key is shown
C21_FailureKeepsAcceptedFrame ==
    /\ Handled(call)
    /\ IsFailure(call.reply)
    /\ frames[call.offset] = "img2"
    /\ Count(trace, "batchFinished") = 1
    /\ build_offsets[current_index + 1] # call.offset
    /\ \E o \in Offsets : frames[o] = None

----------------------------------------------------------------------------
(* One batch of the application *)

\* The first batch of the application, with the cap at 1..MaxCap so that keys
\* wait in the queue as they do with 40 keys and a cap of 4: the replies arrive
\* in any order, each handled by one run of _on_finished on the GUI thread.
InitBatch ==
    \E dir \in StartDirs, idx \in {0, NumOffsets - 1}, cap \in 1..MaxCap :
        /\ Starts(RefreshImagesFrom(
                    SetMaxConcurrentTo(Constructed(dir.files, dir.doc, idx, TRUE),
                                       cap)))
        /\ call = Call("__init__", 0, NoReply, FALSE)

NextBatch == \E i \in 1..Len(network), r \in WindowReplies : OnFinished(i, r)

SpecBatch == InitBatch /\ [][NextBatch]_vars

\* everything a handler leaves behind, but the record of what it emitted
Outcome(s) == [s EXCEPT !.trace = <<>>]

\* C22: the replies to the outstanding requests may be handled in either order:
\* for any two outstanding requests and any outcome of each, handling one and
\* then the other leaves the same counters, queue, frame table, content files
\* and validator table (in memory and on disk) as handling them in the other
\* order; and when nothing is queued or outstanding the batch has finished with
\* completed == total.
C22_CompletionOrderIrrelevant ==
    /\ \A i, j \in 1..Len(network) : \A r1, r2 \in WindowReplies :
        i < j =>
            Outcome(OnFinishedFrom(OnFinishedFrom(St, i, r1), j - 1, r2))
                = Outcome(OnFinishedFrom(OnFinishedFrom(St, j, r2), i, r1))
    /\ (queue = <<>> /\ network = <<>>) =>
            /\ done = total
            /\ total = NumOffsets
            /\ ~refresh_in_progress
            /\ ~dirty

\* the key requested first was answered last, after a key requested later had
\* been accepted, and the batch is finished
C22_FirstRequestedAnsweredLast ==
    /\ Handled(call)
    /\ max_concurrent > 1
    /\ call.offset = BuildPriorityOffsets(current_index)[1]
    /\ IsAccepted(call.reply)
    /\ done = total
    /\ \E o \in Offsets : o # call.offset /\ frames[o] = "img2"
    /\ metadata_file = Document(data)

----------------------------------------------------------------------------
(* C23: store access and batch activity *)

\* C23: metadata.json is saved only in the handler of the last response of a
\* batch, after batchFinished, with nothing queued or outstanding; headers_for
\* is read only when a refresh starts a batch, with nothing outstanding; and
\* between the end of a batch and the start of the next the validator table is
\* not updated.
C23_StoreAccessSerialized ==
    /\ [](call.op = "__init__" =>
            headers_by_offset = [o \in Offsets |-> headers_for(data, o)])
    /\ [][/\ Count(trace', "metadata.write") > 0 =>
                /\ Handled(call')
                /\ Count(trace', "batchFinished") = 1
                /\ Pos(trace', "batchFinished") < Pos(trace', "metadata.write")
                /\ \A n \in 1..Len(trace') :
                        trace'[n].sig = "metadata.update" =>
                            n < Pos(trace', "batchFinished")
          /\ Count(trace', "batchFinished") = 1 =>
                /\ in_flight' = 0
                /\ queue' = <<>>
                /\ network' = <<>>
                /\ done' = total'
                /\ ~dirty'
                /\ metadata_file' = IF dirty \/ Count(trace', "metadata.update") > 0
                                    THEN Document(data') ELSE metadata_file
          /\ headers_by_offset' # headers_by_offset =>
                /\ call'.op = "refresh_images"
                /\ Idle
                /\ ~refresh_in_progress
          /\ (call'.op = "refresh_images" /\ ~refresh_in_progress) =>
                /\ headers_by_offset' = [o \in Offsets |-> headers_for(data, o)]
                /\ data' = data
          /\ ~refresh_in_progress =>
                /\ ~dirty
                /\ Count(trace', "metadata.update") = 0
                /\ data' = data
                /\ metadata_file' = metadata_file]_vars

\* the second batch ended with an accepted response: its validators were
\* recorded, then batchFinished, then the table was saved
C23_SavedAfterLastResponse ==
    /\ Handled(call)
    /\ IsAccepted(call.reply)
    /\ Pos(trace, "metadata.update") = 3
    /\ Pos(trace, "batchFinished") = 5
    /\ Pos(trace, "metadata.write") = 6
    /\ in_flight = 0
    /\ metadata_file = Document(data)
    /\ \A o \in Offsets : headers_by_offset[o].etag = "e2"

----------------------------------------------------------------------------
(* C24: one request and one outcome per key *)

\* the keys of a sequence of keys, and of a sequence of requests
KeysOf(q) == {q[n] : n \in 1..Len(q)}

RequestedKeys(nw) == {nw[n].offset : n \in 1..Len(nw)}

\* the entries of tr that are outcome notifications, and those that are requests
Outcomes(tr) ==
    {n \in 1..Len(tr) : tr[n].sig \in {"imageLoaded", "notModified", "imageError"}}

Requests(tr) == {n \in 1..Len(tr) : tr[n].sig = "request"}

\* C24: in a batch every key is either queued, or requested and awaiting its
\* reply, or resolved, and moves from one to the next only: it is requested once,
\* the reply to its request yields exactly one outcome notification, for that
\* key, after which it is neither queued nor requested again, whether the
\* outcome is an error or not; and a failed request frees its slot for the next
\* queued key.
C24_OneRequestOneOutcomePerKey ==
    /\ [](/\ Cardinality(KeysOf(queue)) = Len(queue)
          /\ Cardinality(RequestedKeys(network)) = Len(network)
          /\ KeysOf(queue) \cap RequestedKeys(network) = {}
          /\ Len(queue) + Len(network) + done = NumOffsets
          /\ call.op = "__init__" =>
                /\ KeysOf(queue) \cup RequestedKeys(network) = Offsets
                /\ Outcomes(trace) = {}
                /\ {trace[n].offset : n \in Requests(trace)} = RequestedKeys(network)
                /\ Cardinality(Requests(trace)) = Len(network))
    /\ [][Handled(call') =>
            LET k == call'.offset IN
            /\ k \in RequestedKeys(network)
            /\ k \notin KeysOf(queue') \cup RequestedKeys(network')
            /\ KeysOf(queue') \cup RequestedKeys(network')
                    = (KeysOf(queue) \cup RequestedKeys(network)) \ {k}
            /\ Cardinality(Outcomes(trace')) = 1
            /\ \A n \in Outcomes(trace') : n = 1 /\ trace'[n].offset = k
            /\ {trace'[n].offset : n \in Requests(trace')}
                    = KeysOf(queue) \ KeysOf(queue')
            /\ Cardinality(Requests(trace')) = Len(queue) - Len(queue')
            /\ (queue # <<>> /\ in_flight = max_concurrent) =>
                    Cardinality(Requests(trace')) = 1]_vars

\* with one request at a time, the first request failed and the next key was
\* requested
C24_NextKeyRequestedAfterFailure ==
    /\ Handled(call)
    /\ IsFailure(call.reply)
    /\ ~IsNotModified(call.reply)
    /\ max_concurrent = 1
    /\ done = 1
    /\ Len(network) = 1
    /\ network[1].offset # call.offset
    /\ Cardinality(Requests(trace)) = 1

----------------------------------------------------------------------------
(* C25: the progress counters *)

\* the counters of the fetcher and of the window
Counters == <<total, done, progress_updated, progress_unchanged>>

\* C25: a batch starts with total = number of keys and completed = accepted =
\* unchanged = 0; during the batch total stays and the others only grow; when
\* batchFinished is emitted nothing is queued or outstanding and completed =
\* total; from then on the counters rest until the next batch starts.
C25_CountersResetGrowRest ==
    /\ [](call.op = "__init__" => Counters = <<NumOffsets, 0, 0, 0>>)
    /\ [][/\ (call'.op = "refresh_images" /\ ~refresh_in_progress) =>
                Counters' = <<NumOffsets, 0, 0, 0>>
          /\ Handled(call') =>
                /\ total' = total
                /\ done' = done + 1
                /\ done' <= total'
                /\ progress_updated' \in {progress_updated, progress_updated + 1}
                /\ progress_unchanged' \in {progress_unchanged, progress_unchanged + 1}
          /\ Count(trace', "batchFinished") = 1 =>
                /\ in_flight' = 0
                /\ queue' = <<>>
                /\ network' = <<>>
                /\ done' = total'
          /\ ~refresh_in_progress =>
                /\ Idle
                /\ done = total
                /\ ~Handled(call')
                /\ call'.op # "refresh_images" => Counters' = Counters
          /\ (call'.op = "refresh_images" /\ refresh_in_progress) =>
                Counters' = Counters]_vars

\* a refresh started a new batch after a batch in which a response was accepted
\* and one was not modified
C25_CountersResetByRefresh ==
    /\ call.op = "refresh_images"
    /\ call.arg = FALSE
    /\ Counters = <<NumOffsets, 0, 0, 0>>
    /\ \E o \in Offsets : frames[o] = "img2"
    /\ \E o \in Offsets : frames[o] = "img1"
    /\ metadata_file # Document(AllRecords)

----------------------------------------------------------------------------
(* C26: requests in input order *)

IsRequest(e) == e.sig = "request"

\* the keys requested by the last handler, in the order of the requests
RequestedInOrder(tr) ==
    LET rs == SelectSeq(tr, IsRequest) IN [n \in 1..Len(rs) |-> rs[n].offset]

\* the keys of the outstanding requests, oldest first
OutstandingKeys(nw) == [n \in 1..Len(nw) |-> nw[n].offset]

Min(a, b) == IF a <= b THEN a ELSE b

\* C26: fetch_offsets requests at once the first min(cap, number of keys) keys
\* of its sequence, in order, and leaves the rest queued in order; every later
\* request is for the key at the head of the queue; so the k-th request of a
\* batch is for the k-th key of the sequence, whatever the cap and the order in
\* which the replies arrive.
C26_RequestsInInputOrder ==
    [][/\ call'.op = "fetch_offsets" =>
            LET offsets == call'.arg.offsets
                m == Min(max_concurrent, Len(offsets))
            IN /\ RequestedInOrder(trace') = SubSeq(offsets, 1, m)
               /\ OutstandingKeys(network') = SubSeq(offsets, 1, m)
               /\ queue' = SubSeq(offsets, m + 1, Len(offsets))
       /\ Handled(call') =>
            LET m == Len(RequestedInOrder(trace')) IN
            /\ RequestedInOrder(trace') = SubSeq(queue, 1, m)
            /\ queue' = SubSeq(queue, m + 1, Len(queue))
            /\ Len(network') = Len(network) - 1 + m
            /\ SubSeq(OutstandingKeys(network'), Len(network), Len(network') )
                    = SubSeq(queue, 1, m)
       /\ ~(Handled(call') \/ call'.op = "fetch_offsets") =>
            /\ queue' = queue
            /\ network' = network]_vars

\* a batch of three keys, one of them twice, started with a cap of 2: two
\* requests in input order, the third key queued
C26_TwoRequestedOneQueued ==
    /\ call.op = "fetch_offsets"
    /\ call.arg.offsets = <<build_offsets[2], build_offsets[1], build_offsets[2]>>
    /\ max_concurrent = 2
    /\ OutstandingKeys(network) = <<build_offsets[2], build_offsets[1]>>
    /\ queue = <<build_offsets[2]>>

----------------------------------------------------------------------------
(* C27: the order of events of one response *)

\* C27: the handler of a response first emits the outcome notification of its
\* key, whose slot does its writes; then it counts, and emits
\* progressChanged(completed, total) with completed already incremented; then it
\* emits batchFinished if completed = total, and otherwise issues requests for
\* queued keys up to the cap. Hence the progress notifications of a batch carry
\* 1, 2, ..., total with the same total.
C27_EventOrderOfResponse ==
    [][Handled(call') =>
        LET tr == trace'
            p == IF IsAccepted(call'.reply) /\ ~IsNotModified(call'.reply)
                 THEN 4 ELSE 2
        IN /\ Len(tr) >= p
           /\ tr[1].sig \in {"imageLoaded", "notModified", "imageError"}
           /\ tr[1].offset = call'.offset
           /\ p = 4 => (tr[2].sig = "cache.write" /\ tr[3].sig = "metadata.update")
           /\ tr[p] = Ev("progressChanged", 0, done + 1, total)
           /\ Count(tr, "progressChanged") = 1
           /\ done' = done + 1
           /\ total' = total
           /\ IF done + 1 = total
              THEN /\ Len(tr) > p
                   /\ tr[p + 1].sig = "batchFinished"
                   /\ \A n \in (p + 2)..Len(tr) : tr[n].sig = "metadata.write"
                   /\ in_flight' = in_flight - 1
              ELSE /\ \A n \in (p + 1)..Len(tr) : tr[n].sig = "request"
                   /\ Len(tr) - p = Min(max_concurrent - (in_flight - 1), Len(queue))
                   /\ in_flight' = in_flight - 1 + (Len(tr) - p)]_vars

\* with one request at a time, an accepted first response: notification, the
\* slot's writes, progress 1 of total, then the request for the next key
C27_AcceptedThenNextRequested ==
    /\ Handled(call)
    /\ Len(trace) = 5
    /\ trace[1].sig = "imageLoaded"
    /\ trace[2].sig = "cache.write"
    /\ trace[3].sig = "metadata.update"
    /\ trace[4] = Ev("progressChanged", 0, 1, NumOffsets)
    /\ trace[5].sig = "request"
    /\ trace[5].offset # call.offset

----------------------------------------------------------------------------
(* C28, C29: the fetcher's counters between handlers *)

\* C28: between handlers, in-flight count + queue length + completed = total,
\* the in-flight count is the number of requests awaiting a reply and is never
\* negative, and 0 <= completed <= total.
C28_Conservation ==
    /\ in_flight + Len(queue) + done = total
    /\ in_flight = Len(network)
    /\ in_flight >= 0
    /\ 0 <= done
    /\ done <= total

\* in the middle of a batch of three keys: one resolved, one requested, one queued
C28_OneDoneOneRequestedOneQueued ==
    /\ Handled(call)
    /\ total = 3
    /\ done = 1
    /\ in_flight = 1
    /\ Len(queue) = 1

\* C29: between handlers the in-flight count is min(cap, total - completed):
\* while a key is queued exactly cap requests are outstanding.
C29_WorkConserving ==
    /\ in_flight = Min(max_concurrent, total - done)
    /\ queue # <<>> => Len(network) = max_concurrent

\* a response has been handled and the freed slot was given to a queued key,
\* another key still waiting
C29_SlotRefilled ==
    /\ Handled(call)
    /\ max_concurrent = 1
    /\ done = 1
    /\ Len(network) = 1
    /\ Len(queue) = 1
    /\ Count(trace, "request") = 1

----------------------------------------------------------------------------
(* C30: the window's counts against the fetcher's *)

\* C30: every response is counted as accepted, as unchanged, or is notified as
\* an error, exactly one of the three, and before its progress notification; so
\* accepted + unchanged <= completed at every progress notification, and
\* accepted + unchanged + the number of error notifications of the batch =
\* completed, which is total when batchFinished is emitted.
C30_CountsAgreeWithCompleted ==
    /\ [](/\ progress_updated + progress_unchanged <= done
          /\ call.op = "__init__" =>
                (progress_updated = 0 /\ progress_unchanged = 0 /\ done = 0))
    /\ [][Handled(call') =>
            /\ progress_updated' = progress_updated + Count(trace', "imageLoaded")
            /\ progress_unchanged' = progress_unchanged + Count(trace', "notModified")
            /\ Count(trace', "imageLoaded") + Count(trace', "notModified")
                    + Count(trace', "imageError") = 1
            /\ (done' - progress_updated' - progress_unchanged')
                    = (done - progress_updated - progress_unchanged)
                        + Count(trace', "imageError")
            /\ Outcomes(trace') = {1}
            /\ Pos(trace', "progressChanged") > 1
            /\ trace'[Pos(trace', "progressChanged")].a
                    >= progress_updated' + progress_unchanged'
            /\ Count(trace', "batchFinished") = 1 =>
                    /\ done' = total'
                    /\ progress_updated' + progress_unchanged' <= total']_vars

\* a batch ended by a failed response after exactly one response was accepted
\* and none was unchanged
C30_BatchEndedWithErrors ==
    /\ Handled(call)
    /\ Count(trace, "imageError") = 1
    /\ Count(trace, "batchFinished") = 1
    /\ progress_updated = 1
    /\ progress_unchanged = 0
    /\ done = total
    /\ \E o \in Offsets : frames[o] = "img2"

----------------------------------------------------------------------------
(* C31: the refresh-in-progress flag *)

\* C31: _refresh_in_progress is true exactly while the fetcher has a request in
\* flight or a key queued, and then a response is awaited; while it is false the
\* validator table is not dirty; the handler that emits batchFinished leaves it
\* false and the table saved; and a refresh asked for while it is false is
\* accepted: it starts a batch over all keys and sends its first requests.
C31_FlagFollowsBatch ==
    /\ [](/\ refresh_in_progress <=> (in_flight > 0 \/ queue # <<>>)
          /\ refresh_in_progress => network # <<>>
          /\ ~refresh_in_progress => ~dirty)
    /\ [][/\ Count(trace', "batchFinished") > 0 =>
                /\ ~refresh_in_progress'
                /\ ~dirty'
                /\ metadata_file'.exists => metadata_file'.table = data'
          /\ (call'.op = "refresh_images" /\ ~refresh_in_progress) =>
                /\ refresh_in_progress'
                /\ total' = NumOffsets
                /\ done' = 0
                /\ Count(trace', "request") = Min(max_concurrent, NumOffsets)
                /\ in_flight' = Min(max_concurrent, NumOffsets)]_vars

\* a refresh asked for after a batch that accepted an image and was saved: it
\* was accepted, one request is in flight and the other keys wait
C31_RefreshAcceptedAfterBatch ==
    /\ call.op = "refresh_images"
    /\ call.arg = FALSE
    /\ refresh_in_progress
    /\ max_concurrent = 1
    /\ in_flight = 1
    /\ Len(queue) = NumOffsets - 1
    /\ metadata_file.exists
    /\ \E o \in Offsets : frames[o] = "img2"

----------------------------------------------------------------------------
(* C32: fetch_offsets called while requests are outstanding *)

\* how many requests may be outstanding when fetch_offsets is called again
MaxOverlap == 1

\* fetch_offsets called by a caller that does not wait for the batch to end: the
\* requests already handed to the QNetworkAccessManager stay outstanding
FetchOffsetsWhileOutstanding(offsets) ==
    /\ network # <<>>
    /\ Len(network) <= MaxOverlap
    /\ Becomes(FetchOffsetsFrom(St, offsets, <<>>, FALSE))
    /\ call' = Call("fetch_offsets", 0, NoReply,
                     [offsets |-> offsets, headers |-> <<>>, force |-> FALSE])

NextOverlap ==
    \/ \E offsets \in KeySequences : FetchOffsets(offsets, <<>>, FALSE)
    \/ \E offsets \in KeySequences : FetchOffsetsWhileOutstanding(offsets)
    \/ \E value \in 1..MaxCap : SetMaxConcurrent(value)
    \/ Answer

\* The fetcher alone, with a caller that may start a batch over another one.
SpecOverlap == InitFetcher /\ [][NextOverlap]_vars

\* C32: when fetch_offsets is called while requests of the previous batch are
\* outstanding, the responses to those requests are not counted for the new
\* batch, so the completed counter never exceeds the total; the in-flight
\* count is never negative and never above the cap; and batchFinished is
\* emitted by a response only once every key of the new batch has been
\* requested and answered, so no key is left in the queue and the requests
\* counted as in flight are all answered.
C32_OverlappingBatchesKeptApart ==
    /\ [](/\ 0 <= in_flight
          /\ in_flight <= max_concurrent
          /\ done <= total)
    /\ [][(Handled(call') /\ Count(trace', "batchFinished") > 0) =>
            /\ queue' = <<>>
            /\ in_flight' = 0]_vars

----------------------------------------------------------------------------
(* C33: conditional requests and the frame table *)

\* the request carries If-None-Match or If-Modified-Since
IsConditional(req) == req.if_none_match # None \/ req.if_modified_since # None

\* C33: a conditional request is outstanding only for a key whose frame holds an
\* image, and a response that says not-modified to a conditional request never
\* leaves its key with no image yet.
C33_ConditionalOnlyWithImage ==
    /\ [](\A i \in 1..Len(network) :
            IsConditional(network[i]) => frames[network[i].offset] # None)
    /\ [][(/\ Handled(call')
           /\ IsNotModified(call'.reply)
           /\ \E i \in 1..Len(network) :
                /\ network[i].offset = call'.offset
                /\ IsConditional(network[i])) =>
                    frames'[call'.offset] # None]_vars

----------------------------------------------------------------------------
(* C34: what the cache directory holds, across restarts *)

\* how many versions of a key's image the server publishes
MaxVersion == 2

Versions == 1..MaxVersion

\* version v of an image: its pixels and the validators the server gives it
PixelsOf(v) == "img" \o ToString(v)
EtagOf(v) == "e" \o ToString(v)
LastModifiedOf(v) == "m" \o ToString(v)

\* the version a validator or an image file was taken from; 0: none
EtagVersion(e) ==
    IF \E v \in Versions : e = EtagOf(v)
    THEN CHOOSE v \in Versions : e = EtagOf(v) ELSE 0

LastModifiedVersion(m) ==
    IF \E v \in Versions : m = LastModifiedOf(v)
    THEN CHOOSE v \in Versions : m = LastModifiedOf(v) ELSE 0

ContentVersion(fs, offset) ==
    LET pixmap == CacheLoad(fs, offset) IN
    IF \E v \in Versions : pixmap = PixelsOf(v)
    THEN CHOOSE v \in Versions : pixmap = PixelsOf(v) ELSE 0

\* the reply that carries version v, with or without each validator, with a body
\* that decodes or not
VersionReply(v, with_etag, with_last_modified, decodable) ==
    [status |-> 200, error |-> "NoError",
     body |-> IF decodable THEN Png(PixelsOf(v)) ELSE Garbage,
     etag |-> IF with_etag THEN EtagOf(v) ELSE "",
     last_modified |-> IF with_last_modified THEN LastModifiedOf(v) ELSE ""]

\* what the server may answer to a request for offset.  For the first key: a
\* version of the image not older than the one last accepted for the key, with
\* both validators, one or none.  For another key: the newest version with both
\* validators.  For every key: the newest version with a body that does not
\* decode; not modified; nothing at all
VersionReplies(offset) ==
    {VersionReply(v, e, m, TRUE) :
        v \in {w \in Versions : /\ w >= ContentVersion(files, offset)
                                /\ offset # build_offsets[1] => w = MaxVersion},
        e \in {b \in BOOLEAN : offset # build_offsets[1] => b},
        m \in {b \in BOOLEAN : offset # build_offsets[1] => b}}
    \cup {VersionReply(MaxVersion, TRUE, TRUE, FALSE)}
    \cup {r \in NotModifiedReplies : r.error = "NoError"}
    \cup {r \in FailureReplies : r.status = 0}

\* cache directories the program leaves behind: none yet, and version 1 of
\* every key with its validators
CoherentDirs ==
    {[files |-> <<>>, doc |-> NoDocument],
     [files |-> AllFiles, doc |-> Document(AllRecords)]}

InitRestart ==
    \E dir \in CoherentDirs :
        /\ Starts(RefreshImagesFrom(Constructed(dir.files, dir.doc, 0, TRUE)))
        /\ call = Call("__init__", 0, NoReply, FALSE)

\* the process stops, at any point, and the application is started again on
\* the cache directory as it is: the requests outstanding are gone with the
\* process
Restart ==
    /\ Becomes(RefreshImagesFrom(Constructed(files, metadata_file, 0, TRUE)))
    /\ call' = Call("__init__", 0, NoReply, TRUE)

NextRestart ==
    \/ RefreshImages
    \/ Restart
    \/ \E i \in 1..Len(network) :
            \E r \in VersionReplies(network[i].offset) : OnFinished(i, r)

\* The application over a server that publishes versions, stopped and started
\* again at any point.
SpecRestart == InitRestart /\ [][NextRestart]_vars

\* the record of a key in the validator document on disk
PersistedRecord(offset) ==
    IF metadata_file.exists
    THEN Get(metadata_file.table, ToString(offset), EmptyDict)
    ELSE EmptyDict

\* no validator of the record is of a later version than the content file
NotNewerThanContent(record, offset) ==
    /\ EtagVersion(record.etag) <= ContentVersion(files, offset)
    /\ LastModifiedVersion(record.last_modified) <= ContentVersion(files, offset)

\* C34: in every state, also after the process was stopped and started again,
\* a validator recorded for a key in the document on disk (and in the table in
\* memory) was taken from the version the key's content file holds or from an
\* earlier one; the content file is written by the handler that accepts the
\* response, the document only by a handler that ends a batch.
C34_ValidatorsNotNewerThanContent ==
    /\ [](\A o \in Offsets :
            /\ NotNewerThanContent(PersistedRecord(o), o)
            /\ NotNewerThanContent(Get(data, ToString(o), EmptyDict), o))
    /\ [][/\ (Handled(call') /\ IsAccepted(call'.reply)) =>
                files'[path_for(call'.offset)] = call'.reply.body
          /\ metadata_file' # metadata_file =>
                (Handled(call') /\ Count(trace', "batchFinished") = 1)]_vars

\* the application was started again after it had stopped in the middle of a
\* batch: the first key's file holds version 2 while the document on disk still
\* records the validators of version 1
C34_RestartedInsideBatch ==
    /\ call.op = "__init__"
    /\ call.arg = TRUE
    /\ ContentVersion(files, build_offsets[1]) = 2
    /\ PersistedRecord(build_offsets[1]).etag = EtagOf(1)
    /\ frames[build_offsets[1]] = PixelsOf(2)

----------------------------------------------------------------------------
(* C35: the current index *)

\* what QSettings may hold for "current_index" (after _settings_int) and for
\* "loop_mode": values in range and out of range, known modes and an unknown one
StoredIndexes == (0 - 1)..NumOffsets

StoredLoopModes == {LOOP_MODES[i] : i \in DOMAIN LOOP_MODES} \cup {"Bounce"}

\* MainWindow._load_settings: loop_mode and current_index; the slider follows
\* and its valueChanged reaches _on_slider_changed
LoadSettings(s, stored_loop_mode, stored_index) ==
    LET s1 == IF stored_loop_mode \in {LOOP_MODES[i] : i \in DOMAIN LOOP_MODES}
              THEN [s EXCEPT !.loop_mode = stored_loop_mode] ELSE s
        s2 == IF 0 <= stored_index /\ stored_index < NumOffsets
              THEN [s1 EXCEPT !.current_index = stored_index] ELSE s1
    IN OnSliderChanged(s2, s2.current_index)

\* MainWindow._on_loop_mode_changed
OnLoopModeChanged(s, text) ==
    IF text \in {LOOP_MODES[i] : i \in DOMAIN LOOP_MODES}
    THEN [s EXCEPT !.loop_mode = text] ELSE s

\* _next_frame_auto that does not turn at the ends in Ping-pong mode
NextFrameAutoNoTurn(s) ==
    IF s.loop_mode = "Stop" /\ s.current_index = NumOffsets - 1 THEN s
    ELSE IF s.loop_mode = "Ping-pong"
    THEN SetCurrentIndexTo(s, s.current_index + s.play_direction)
    ELSE SetCurrentIndexTo(s, (s.current_index + 1) % NumOffsets)

\* MainWindow._next_frame_auto; in Stop mode at the last frame it only pauses
NextFrameAuto(s) ==
    IF s.loop_mode = "Stop" /\ s.current_index = NumOffsets - 1 THEN s
    ELSE IF s.loop_mode = "Ping-pong"
    THEN LET s1 == IF s.play_direction > 0 /\ s.current_index = NumOffsets - 1
                   THEN [s EXCEPT !.play_direction = -1]
                   ELSE IF s.play_direction < 0 /\ s.current_index = 0
                   THEN [s EXCEPT !.play_direction = 1]
                   ELSE s
         IN SetCurrentIndexTo(s1, s1.current_index + s1.play_direction)
    ELSE SetCurrentIndexTo(s, (s.current_index + 1) % NumOffsets)

\* MainWindow() with stored settings, on an empty cache directory
InitPlayback ==
    \E stored_loop_mode \in StoredLoopModes, stored_index \in StoredIndexes :
        /\ Starts(RefreshImagesFrom(
                LoadSettings(Constructed(<<>>, NoDocument, 0, TRUE),
                             stored_loop_mode, stored_index)))
        /\ call = Call("__init__", 0, NoReply, stored_index)

\* the play timer fires
PlayTimer ==
    /\ Becomes(NextFrameAuto(St))
    /\ call' = Call("_next_frame_auto", 0, NoReply, current_index)

\* another loop mode is chosen in the combo box
LoopModeChanged ==
    \E text \in {LOOP_MODES[i] : i \in DOMAIN LOOP_MODES} :
        /\ Becomes(OnLoopModeChanged(St, text))
        /\ call' = Call("_on_loop_mode_changed", 0, NoReply, text)

NextPlayback ==
    \/ Navigate
    \/ PlayTimer
    \/ LoopModeChanged
    \/ RefreshImages
    \/ \E i \in 1..Len(network), r \in {q \in FailureReplies : q.status = 0} :
            OnFinished(i, r)

\* The application as the user and the play timer move through the frames,
\* while batches run and fail.
SpecPlayback == InitPlayback /\ [][NextPlayback]_vars

\* C35: current_index is always one of 0..N-1, after the settings were loaded
\* and after every prev, next, jump, slider change, Home, End and timer tick in
\* every loop mode, so the first key of the plan is the key displayed; and the
\* first request of every batch is for that key.
C35_CurrentIndexInRange ==
    /\ [](/\ current_index \in 0..(NumOffsets - 1)
          /\ play_direction \in {-1, 1}
          /\ loop_mode \in {LOOP_MODES[i] : i \in DOMAIN LOOP_MODES}
          /\ BuildPriorityOffsets(current_index)[1]
                = build_offsets[current_index + 1]
          /\ call.op = "__init__" =>
                network[1].offset = build_offsets[current_index + 1])
    /\ [][(call'.op = "refresh_images" /\ ~refresh_in_progress) =>
            RequestedInOrder(trace')[1] = build_offsets[current_index + 1]]_vars

\* the play timer fired in Ping-pong mode at the last frame while playing
\* forwards: the direction turned and the frame before the last is shown
C35_TurnedAtLastFrame ==
    /\ call.op = "_next_frame_auto"
    /\ call.arg = NumOffsets - 1
    /\ loop_mode = "Ping-pong"
    /\ play_direction = -1
    /\ current_index = NumOffsets - 2

====
